---- MODULE Spec2Model ----
(***************************************************************************)
(* Kernel Ridge Regression and Kernel Logistic Regression (src/models.py)  *)
(* as a state machine: one estimator handle, the caller's numpy arrays,    *)
(* and the record of the last call.                                        *)
(*                                                                         *)
(* Numbers.  Real values (targets, Alpha, margins, probabilities, tol,     *)
(* threshold) are fixed-point integers: the integer v stands for v/SCALE.  *)
(* Feature values, Gram entries, Lambda and max_iter are plain integers.   *)
(* A linear solve is Cramer's rule, its quotient rounded to the grid;      *)
(* exp occurs in the code only inside 1/(1+exp(.)) terms, which are        *)
(* evaluated by the saturating piecewise-linear logistic curve Sigmoid.    *)
(* Norms are kept as their squares so that `error < tol' and               *)
(* `error > tol' are decided exactly.                                      *)
(***************************************************************************)
EXTENDS Integers, Sequences, FiniteSets, TLC

VARIABLES est, heap, last, lastPredict

vars == <<est, heap, last, lastPredict>>

-----------------------------------------------------------------------------
(* Bounds of the model.                                                    *)

SCALE == 8
MaxRows == 2
MaxIter == 3

-----------------------------------------------------------------------------
(* Inputs.                                                                 *)

FeatureVals == {1, 2}
TargetVals == {-1, 1}
\* the caller's arrays: "X1" has one row, "X2" has MaxRows rows
ArrIds == {"X1", "X2"}
Rows(a) == IF a = "X1" THEN 1 ELSE MaxRows
KernelFuncs == {"linear", "affine"}
LambdaVals == {-1, 0, 1}
TolVals == {0, 1, 3}
MaxIterVals == {0, 1, MaxIter}
ThresholdVals == {0, SCALE \div 2, SCALE, 2 * SCALE}

\* n x 1 target arrays, as long as one of the caller's feature arrays
Targets == UNION {[1..n -> TargetVals] : n \in {1, MaxRows}}

\* Python's None, for Alpha (a vector otherwise) and for Data (a reference)
None == <<>>
NoneRef == "None"

-----------------------------------------------------------------------------
(* Arithmetic helpers.                                                     *)

Abs(a) == IF a < 0 THEN -a ELSE a

\* a / b rounded toward zero, b # 0
Quot(a, b) ==
    IF (a < 0) = (b < 0) THEN Abs(a) \div Abs(b) ELSE -(Abs(a) \div Abs(b))

RECURSIVE SumTo(_, _)
SumTo(f, n) == IF n = 0 THEN 0 ELSE f[n] + SumTo(f, n - 1)

\* the array <<f[1], ..., f[n]>>, every element computed once
RECURSIVE Array(_, _)
Array(f, n) == IF n = 0 THEN <<>> ELSE Append(Array(f, n - 1), f[n])

\* A @ v for an r x c matrix A (sequence of rows) and a c-vector v
MatVec(A, v) ==
    Array([i \in 1..Len(A) |-> SumTo([j \in 1..Len(v) |-> A[i][j] * v[j]], Len(v))],
          Len(A))

\* the matrix without row 1 and column c
Minor(A, c) ==
    [i \in 1..(Len(A) - 1) |->
        [j \in 1..(Len(A) - 1) |-> A[i + 1][IF j < c THEN j ELSE j + 1]]]

RECURSIVE Det(_)
Det(A) ==
    IF Len(A) = 1 THEN A[1][1]
    ELSE SumTo([c \in 1..Len(A) |->
                  (IF c % 2 = 1 THEN 1 ELSE -1) * A[1][c] * Det(Minor(A, c))],
               Len(A))

ReplaceCol(A, c, b) ==
    [i \in 1..Len(A) |-> [j \in 1..Len(A) |-> IF j = c THEN b[i] ELSE A[i][j]]]

\* squared Euclidean norm of a - b
NormSq(a, b) == SumTo([i \in 1..Len(a) |-> (a[i] - b[i]) * (a[i] - b[i])], Len(a))

-----------------------------------------------------------------------------
(* numpy and the kernel.                                                   *)

\* kernel_func(X1, X2): the Gram matrix, n1 x n2
Kernel(kf, X1, X2) ==
    Array([i \in 1..Len(X1) |->
             Array([j \in 1..Len(X2) |->
                      X1[i] * X2[j] + (IF kf = "affine" THEN 1 ELSE 0)], Len(X2))],
          Len(X1))

\* K + Lambda*n*I, with the identity worth `one'
Regularized(K, Lambda, one) ==
    Array([i \in 1..Len(K) |->
             Array([j \in 1..Len(K) |->
                      K[i][j] + (IF i = j THEN Lambda * Len(K) * one ELSE 0)], Len(K))],
          Len(K))

\* np.linalg.solve(A, b): b carries one more factor SCALE than A
LinalgSolve(A, b) ==
    IF Len(b) # Len(A) THEN [exc |-> "ValueError", x |-> None]
    ELSE LET d == Det(A)
         IN  IF d = 0 THEN [exc |-> "LinAlgError", x |-> None]
             ELSE [exc |-> "ok",
                   x |-> Array([i \in 1..Len(A) |-> Quot(Det(ReplaceCol(A, i, b)), d)],
                               Len(A))]

\* 1/(1+np.exp(-f))
Sigmoid(f) ==
    LET v == (SCALE \div 2) + Quot(f, 4)
    IN  IF v < 0 THEN 0 ELSE IF v > SCALE THEN SCALE ELSE v

-----------------------------------------------------------------------------
(* The estimator object.                                                   *)

\* __init__: there is no validation; every argument is stored as given
NewRidge(kf, Lambda) ==
    [kind |-> "ridge", Kernel |-> kf, Alpha |-> None, Data |-> NoneRef,
     Lambda |-> Lambda]

NewLogistic(kf, Lambda, tol, max_iter, threshold) ==
    [kind |-> "logistic", Kernel |-> kf, Alpha |-> None, Data |-> NoneRef,
     Lambda |-> Lambda, tol |-> tol, max_iter |-> max_iter,
     threshold |-> threshold]

\* the constructor calls of the model: for the logistic estimator every tol and
\* max_iter with Lambda >= 0, the linear kernel and threshold 0.5, and every
\* threshold, the other kernel and the negative Lambda once each
Estimators ==
    {NewRidge(kf, L) : kf \in KernelFuncs, L \in LambdaVals}
    \cup {NewLogistic("linear", L, t, mi, SCALE \div 2) :
            L \in LambdaVals \ {-1}, t \in TolVals, mi \in MaxIterVals}
    \cup {NewLogistic("linear", 1, 1, MaxIter, th) : th \in ThresholdVals}
    \cup {NewLogistic("affine", L, 1, MaxIter, SCALE \div 2) : L \in LambdaVals}
    \cup {NewLogistic("linear", -1, 1, MaxIter, SCALE \div 2)}

\* the value of a reference held in Data
Deref(ref) == IF ref = NoneRef THEN None ELSE heap[ref]

\* the feature vectors predict reads through self.Data
DataVal == Deref(est.Data)

-----------------------------------------------------------------------------
(* KernelLogisticRegression.loss and the Newton / IRLS loop.               *)

Diag(v) ==
    Array([i \in 1..Len(v) |->
             Array([j \in 1..Len(v) |-> IF i = j THEN v[i] ELSE 0], Len(v))],
          Len(v))

MatMul(A, B) ==
    Array([i \in 1..Len(A) |->
             Array([j \in 1..Len(B[1]) |->
                      SumTo([k \in 1..Len(B) |-> A[i][k] * B[k][j]], Len(B))],
                   Len(B[1]))],
          Len(A))

\* l1 = -1/(1+exp(s)), l2 = exp(s)/(1+exp(s))**2 = (1/(1+exp(-s)))*(1/(1+exp(s)))
Loss(s) ==
    [P |-> Diag(Array([i \in 1..Len(s) |-> -Sigmoid(-s[i])], Len(s))),
     W |-> Diag(Array([i \in 1..Len(s) |->
                         Quot(Sigmoid(s[i]) * Sigmoid(-s[i]), SCALE)], Len(s)))]

\* error < self.tol and error > self.tol, the error given by its square
ErrorBelowTol(errSq, tol) == tol > 0 /\ errSq < tol * tol
ErrorAboveTol(errSq, tol) == tol < 0 \/ errSq > tol * tol

\* the loop body up to the solve: alpha_new from alpha_old
NewtonSolve(K, y, Lambda, alpha_old) ==
    LET n == Len(K)
        m == MatVec(K, alpha_old)
    IN  IF Len(y) # n THEN [exc |-> "ValueError", x |-> None]
        ELSE LET l == Loss(Array([i \in 1..n |-> y[i] * m[i]], n))
                 Wm == MatVec(l.W, m)
                 Py == MatVec(l.P, y)
                 z == Array([i \in 1..n |-> Wm[i] - SCALE * Py[i]], n)
             IN  LinalgSolve(Regularized(MatMul(l.W, K), Lambda, SCALE), z)

\* the loop without its `break': every pass runs, whatever the error
RECURSIVE IrlsLoopNoBreak(_, _, _, _, _, _, _, _)
IrlsLoopNoBreak(K, y, Lambda, tol, max_iter, step, alpha_old, errors) ==
    LET sol == NewtonSolve(K, y, Lambda, alpha_old)
    IN  IF sol.exc # "ok"
        THEN [exc |-> sol.exc, alpha_new |-> None, step |-> step,
              solves |-> IF sol.exc = "LinAlgError" THEN step + 1 ELSE step,
              errors |-> errors]
        ELSE LET error == NormSq(sol.x, alpha_old)
             IN  IF step + 1 >= max_iter
                 THEN [exc |-> "ok", alpha_new |-> sol.x, step |-> step,
                       solves |-> step + 1, errors |-> Append(errors, error)]
                 ELSE IrlsLoopNoBreak(K, y, Lambda, tol, max_iter, step + 1, sol.x,
                                      Append(errors, error))

\* for step in range(max_iter): ... ; called with step < max_iter
RECURSIVE IrlsLoop(_, _, _, _, _, _, _, _)
IrlsLoop(K, y, Lambda, tol, max_iter, step, alpha_old, errors) ==
    LET sol == NewtonSolve(K, y, Lambda, alpha_old)
    IN  IF sol.exc # "ok"
        THEN [exc |-> sol.exc, alpha_new |-> None, step |-> step,
              solves |-> IF sol.exc = "LinAlgError" THEN step + 1 ELSE step,
              errors |-> errors]
        ELSE LET error == NormSq(sol.x, alpha_old)
             IN  IF ErrorBelowTol(error, tol) \/ step + 1 >= max_iter
                 THEN [exc |-> "ok", alpha_new |-> sol.x, step |-> step,
                       solves |-> step + 1, errors |-> Append(errors, error)]
                 ELSE IrlsLoop(K, y, Lambda, tol, max_iter, step + 1, sol.x,
                               Append(errors, error))

\* if (step == self.max_iter - 1) and (error > self.tol): print(...)
DidntConverge(r, tol, max_iter) ==
    r.step = max_iter - 1 /\ ErrorAboveTol(r.errors[Len(r.errors)], tol)

-----------------------------------------------------------------------------
(* The record of the last call.                                            *)

NoPredict == [valid |-> FALSE, X |-> None, exc |-> "", ret |-> None]

NoCall ==
    [op |-> "", exc |-> "ok", xref |-> NoneRef, X |-> None, y |-> None,
     ret |-> None, warned |-> FALSE, solves |-> 0, errors |-> <<>>]

ZeroVec(n) == Array([i \in 1..n |-> 0], n)

-----------------------------------------------------------------------------
(* Operations.                                                             *)

\* the state as __init__ leaves it, for every choice of arguments
Init ==
    /\ est \in Estimators
    /\ heap = [a \in ArrIds |-> [i \in 1..Rows(a) |-> 1]]
    /\ last = [NoCall EXCEPT !.op = "construct"]
    /\ lastPredict = NoPredict

\* reset() without its second assignment
ResetKeepsData ==
    /\ est' = [est EXCEPT !.Alpha = None]
    /\ last' = [NoCall EXCEPT !.op = "reset"]
    /\ lastPredict' = NoPredict
    /\ UNCHANGED heap

\* reset(): the same two assignments in both classes
Reset ==
    /\ est' = [est EXCEPT !.Alpha = None, !.Data = NoneRef]
    /\ last' = [NoCall EXCEPT !.op = "reset"]
    /\ lastPredict' = NoPredict
    /\ UNCHANGED heap

\* the caller writes into one of its own arrays in place: X[0] = v
CallerWrite ==
    \E a \in ArrIds, v \in FeatureVals :
        /\ heap[a][1] # v
        /\ heap' = [heap EXCEPT ![a][1] = v]
        /\ last' = [NoCall EXCEPT !.op = "write", !.xref = a]
        /\ UNCHANGED <<est, lastPredict>>

\* KernelRidgeRegression.train(X, y), X passed by reference
RidgeTrainResult(e, ref, y) ==
    LET K == Kernel(e.Kernel, heap[ref], heap[ref])
        sol == LinalgSolve(Regularized(K, e.Lambda, 1),
                           Array([i \in 1..Len(y) |-> SCALE * y[i]], Len(y)))
    IN  [est |-> IF sol.exc = "ok"
                 THEN [e EXCEPT !.Data = ref, !.Alpha = sol.x]
                 ELSE [e EXCEPT !.Data = ref],
         exc |-> sol.exc, warned |-> FALSE,
         solves |-> IF sol.exc = "ValueError" THEN 0 ELSE 1, errors |-> <<>>]

\* KernelLogisticRegression.train(X, y), X passed by reference
LogisticTrainResult(e, ref, y) ==
    LET K == Kernel(e.Kernel, heap[ref], heap[ref])
    IN  IF e.max_iter <= 0
        THEN \* the loop body never runs: `step' is unbound at the check after it
             [est |-> [e EXCEPT !.Data = ref], exc |-> "UnboundLocalError",
              warned |-> FALSE, solves |-> 0, errors |-> <<>>]
        ELSE LET r == IrlsLoop(K, y, e.Lambda, e.tol, e.max_iter, 0,
                               ZeroVec(Len(K)), <<>>)
             IN  IF r.exc # "ok"
                 THEN [est |-> [e EXCEPT !.Data = ref], exc |-> r.exc,
                       warned |-> FALSE, solves |-> r.solves, errors |-> r.errors]
                 ELSE [est |-> [e EXCEPT !.Data = ref, !.Alpha = r.alpha_new],
                       exc |-> "ok", warned |-> DidntConverge(r, e.tol, e.max_iter),
                       solves |-> r.solves, errors |-> r.errors]

TrainResult(e, ref, y) ==
    IF e.kind = "ridge" THEN RidgeTrainResult(e, ref, y)
    ELSE LogisticTrainResult(e, ref, y)

Train ==
    \E ref \in ArrIds, y \in Targets :
      \E r \in {TrainResult(est, ref, y)} :
          /\ est' = r.est
          /\ last' = [NoCall EXCEPT !.op = "train", !.exc = r.exc, !.xref = ref,
                        !.X = heap[ref], !.y = y, !.warned = r.warned,
                        !.solves = r.solves, !.errors = r.errors]
          /\ lastPredict' = NoPredict
          /\ UNCHANGED heap

\* what the calls on None can raise: kernel_func(X, None), K @ None
NoneFailures == {"AttributeError", "TypeError", "ValueError"}

\* K = self.Kernel(X, self.Data); K @ self.Alpha
Scores(e, X) ==
    IF e.Data = NoneRef \/ e.Alpha = None THEN [excs |-> NoneFailures, f |-> None]
    ELSE IF Len(Deref(e.Data)) # Len(e.Alpha) THEN [excs |-> {"ValueError"}, f |-> None]
    ELSE [excs |-> {"ok"}, f |-> MatVec(Kernel(e.Kernel, X, Deref(e.Data)), e.Alpha)]

\* KernelRidgeRegression.predict(X)
RidgePredict(e, X) == Scores(e, X)

\* predict with p >= threshold in place of p > threshold
LogisticPredictAtLeast(e, X) ==
    LET sc == Scores(e, X)
    IN  IF sc.f = None THEN sc
        ELSE [excs |-> sc.excs,
              f |-> Array([i \in 1..Len(sc.f) |->
                             2 * (IF Sigmoid(sc.f[i]) >= e.threshold THEN 1 ELSE 0) - 1],
                          Len(sc.f))]

\* KernelLogisticRegression.predict(X)
LogisticPredict(e, X) ==
    LET sc == Scores(e, X)
    IN  IF sc.f = None THEN sc
        ELSE [excs |-> sc.excs,
              f |-> Array([i \in 1..Len(sc.f) |->
                             2 * (IF Sigmoid(sc.f[i]) > e.threshold THEN 1 ELSE 0) - 1],
                          Len(sc.f))]

PredictResult(e, X) ==
    IF e.kind = "ridge" THEN RidgePredict(e, X) ELSE LogisticPredict(e, X)

\* predict(X), X one of the caller's arrays; `track' keeps the call in lastPredict
PredictCall(track) ==
    \E ref \in ArrIds :
      \E r \in {PredictResult(est, heap[ref])} :
          \E exc \in r.excs :
            /\ last' = [NoCall EXCEPT !.op = "predict", !.exc = exc, !.xref = ref,
                          !.X = heap[ref], !.ret = r.f]
            /\ lastPredict' = IF track
                               THEN [valid |-> TRUE, X |-> heap[ref], exc |-> exc,
                                     ret |-> r.f]
                               ELSE lastPredict
            /\ UNCHANGED <<est, heap>>

Predict == PredictCall(FALSE)

PredictTracked == PredictCall(TRUE)

Next == Reset \/ CallerWrite \/ Train \/ Predict

Spec == Init /\ [][Next]_vars

\* the same program, with the history of predict calls kept
NextTracked == Reset \/ CallerWrite \/ Train \/ PredictTracked

SpecTracked == Init /\ [][NextTracked]_vars

-----------------------------------------------------------------------------
(* Properties.                                                             *)

\* the constructor arguments the specification allows
ValidHyper(e) ==
    /\ e.Lambda >= 0
    /\ e.kind = "logistic" =>
         /\ e.tol > 0
         /\ e.max_iter >= 1
         /\ e.threshold \in 0..SCALE

\* an estimator's kernel and hyperparameters
Hyper(e) == [e EXCEPT !.Alpha = None, !.Data = NoneRef]

\* Alpha_k of the Newton iteration, Alpha_0 = 0
RECURSIVE NewtonIterate(_, _, _, _)
NewtonIterate(K, y, Lambda, k) ==
    IF k = 0 THEN ZeroVec(Len(K))
    ELSE NewtonSolve(K, y, Lambda, NewtonIterate(K, y, Lambda, k - 1)).x

\* alpha solves (K + Lambda*n*I) alpha = y up to the rounding of each
\* coefficient to the fixed-point grid
SolvesRidgeSystem(e, X, y, alpha) ==
    LET A == Regularized(Kernel(e.Kernel, X, X), e.Lambda, 1)
    IN  /\ Len(alpha) = Len(X)
        /\ \A i \in 1..Len(X) :
             Abs(SumTo([j \in 1..Len(X) |-> A[i][j] * alpha[j]], Len(X)) - SCALE * y[i])
               <= SumTo([j \in 1..Len(X) |-> Abs(A[i][j])], Len(X))

\* C1: a train call that fails with a fatal error leaves Data and Alpha as they
\* were: it never overwrites, wholly or in part, a previously trained pair.
C1_FailedTrainKeepsTrainedPair ==
    [][(last'.op = "train" /\ last'.exc # "ok" /\ ValidHyper(est)
          /\ est.Alpha # None)
       => (est'.Data = est.Data /\ est'.Alpha = est.Alpha)]_vars

\* C2: predict on an estimator with no successful train since construction or
\* reset fails with NotTrainedError and returns no predictions.
C2_UntrainedPredictNotTrainedError ==
    (last.op = "predict" /\ est.Alpha = None)
    => (last.exc = "NotTrainedError" /\ last.ret = None)

\* C3: a logistic train that completes warns exactly when the loop ran all
\* max_iter passes and no pass had error < tol (error = tol counts as not below).
C3_WarningIffBudgetExhausted ==
    (last.op = "train" /\ est.kind = "logistic" /\ ValidHyper(est) /\ last.exc = "ok")
    => (last.warned <=>
          /\ Len(last.errors) = est.max_iter
          /\ \A i \in 1..Len(last.errors) : last.errors[i] >= est.tol * est.tol)

\* C4: no estimator that train or predict can be called on holds an invalid
\* hyperparameter (construction with one fails with ConfigError).
C4_NoInvalidHyperparameter == ValidHyper(est)

\* C5: train with a number of targets different from the number of feature
\* vectors fails with ShapeError.
C5_MismatchRaisesShapeError ==
    (last.op = "train" /\ ValidHyper(est) /\ Len(last.y) # Len(last.X))
    => last.exc = "ShapeError"

\* C6: on a trained logistic estimator predict returns one value per input row,
\* each in {-1, +1}: +1 exactly where sigmoid(K' @ Alpha) > threshold.
C6_LabelsFollowThreshold ==
    (last.op = "predict" /\ est.kind = "logistic" /\ last.exc = "ok")
    => LET f == MatVec(Kernel(est.Kernel, last.X, DataVal), est.Alpha)
       IN  /\ Len(last.ret) = Len(last.X)
           /\ \A i \in 1..Len(last.X) :
                /\ last.ret[i] \in {-1, 1}
                /\ last.ret[i] = 1 <=> Sigmoid(f[i]) > est.threshold

\* a predict of the logistic estimator that returns both labels
C6_Witness ==
    /\ last.op = "predict" /\ est.kind = "logistic" /\ last.exc = "ok"
    /\ est.threshold \in 0..SCALE
    /\ \E i, j \in 1..Len(last.ret) : last.ret[i] = 1 /\ last.ret[j] = -1

\* C7: construction leaves Data and Alpha unset; a successful train sets Data to
\* X and Alpha to the coefficients computed from that X and y; reset unsets both
\* and cannot fail; train and reset leave kernel and hyperparameters unchanged.
C7_Lifecycle ==
    /\ (est.Alpha = None /\ est.Data = NoneRef)
    /\ []((last.op = "train" /\ last.exc = "ok") =>
            /\ est.Data = last.xref
            /\ DataVal = last.X
            /\ IF est.kind = "ridge"
               THEN SolvesRidgeSystem(est, last.X, last.y, est.Alpha)
               ELSE est.Alpha = NewtonIterate(Kernel(est.Kernel, last.X, last.X),
                                              last.y, est.Lambda, last.solves))
    /\ [][/\ last'.op = "reset" =>
               est'.Alpha = None /\ est'.Data = NoneRef /\ last'.exc = "ok"
          /\ last'.op \in {"train", "reset"} => Hyper(est') = Hyper(est)]_vars

\* a successful train on the caller's second array, Data and Alpha both set
C7_Witness ==
    /\ last.op = "train" /\ last.exc = "ok" /\ ValidHyper(est)
    /\ est.Data = "X2" /\ Len(est.Alpha) = MaxRows

\* C8: after a successful train, a change the caller makes to its X does not
\* change the feature vectors the estimator holds as Data.
C8_DataUnaffectedByCallerWrite ==
    [][(last'.op = "write" /\ est.Alpha # None /\ ValidHyper(est))
       => DataVal' = DataVal]_vars

\* C9: predict leaves the estimator unchanged, and two predict calls with the
\* same input and no train or reset between them return the same result.
C9_PredictReadOnlyAndRepeatable ==
    [][last'.op = "predict"
       => /\ est' = est
          /\ heap' = heap
          /\ (lastPredict.valid /\ lastPredict.X = last'.X /\ ValidHyper(est))
               => last'.ret = lastPredict.ret]_vars

\* C10: for max_iter >= 1 the logistic train does between 1 and max_iter solves,
\* each from the previous Alpha starting at 0; no pass before the last had
\* error < tol; it stops before max_iter only on error < tol; the Alpha stored
\* is the one of the last pass.
C10_BoundedNewtonIteration ==
    (last.op = "train" /\ est.kind = "logistic" /\ est.max_iter >= 1
       /\ last.exc \in {"ok", "LinAlgError"})
    => LET K == Kernel(est.Kernel, last.X, last.X)
           It(k) == NewtonIterate(K, last.y, est.Lambda, k)
           Below(k) == est.tol > 0 /\ NormSq(It(k), It(k - 1)) < est.tol * est.tol
           n == last.solves
       IN  /\ n \in 1..est.max_iter
           /\ \A k \in 1..(n - 1) :
                /\ NewtonSolve(K, last.y, est.Lambda, It(k - 1)).exc = "ok"
                /\ ~Below(k)
           /\ last.exc = "ok" =>
                /\ est.Alpha = It(n)
                /\ Len(last.errors) = n
                /\ \A k \in 1..n : last.errors[k] = NormSq(It(k), It(k - 1))
                /\ n < est.max_iter => Below(n)
           /\ last.exc = "LinAlgError" =>
                NewtonSolve(K, last.y, est.Lambda, It(n - 1)).exc = "LinAlgError"

\* a logistic train that stops at its second pass with a pass to spare
C10_Witness ==
    /\ last.op = "train" /\ est.kind = "logistic" /\ last.exc = "ok"
    /\ last.solves = 2 /\ est.max_iter > 2
    /\ ValidHyper(est)

====
